---- MODULE Spec2Model ----
(***************************************************************************)
(* Model of the two background runners of mourse: Clicker (clicker.rs) and *)
(* MouseMover (mouse_mover.rs), the loop threads they spawn, and the       *)
(* control thread that calls their methods.                                *)
(*                                                                         *)
(* Every method takes &self / &mut self and is called from the single UI   *)
(* thread, so a method body is one atomic action of the control thread.    *)
(* A loop thread is a record in the bag `threads`; each of its steps       *)
(* contains at most one access to the shared atomics.                      *)
(*                                                                         *)
(* Clicker and MouseMover are separate structs with their own Arcs and     *)
(* their own threads, and share no state; a behaviour explores the calls   *)
(* on one of them, the one in `driven`, while the other stays as built.    *)
(* Not modelled: wrap-around of the u64 counter and of interval + delay.   *)
(*                                                                         *)
(* Two specifications share these definitions.  Spec explores the runners  *)
(* under every sequence of calls of their public methods.  AppSpec         *)
(* explores MourseApp (app.rs), the caller the program really has: its     *)
(* construction, the frames of update() with the hotkeys and the widgets,  *)
(* save_config() and on_exit(), on both runners.                           *)
(***************************************************************************)
EXTENDS Bags, FiniteSets, Integers, Sequences, TLC

VARIABLES
    config,       \* config[r]     : Clicker.config / MouseMover.config
    running,      \* running[r]    : is_clicking / is_moving (AtomicBool)
    count,        \* count[r]      : click_count / move_count (AtomicU64)
    incs,         \* history: fetch_add calls on count[r] since its last reset
    threads,      \* bag of the loop threads that were spawned and have not ended
    afterStop,    \* history: actions of runner r since its last stop()
    ops,          \* history: spawning start() calls and configuration changes so far
    driven,       \* the runners the control thread operates in this behaviour
    file,         \* what is at config_path on disk
    lastSave,     \* history: how the most recent save_config() ended, if any
    phase,        \* the process: "running", "exited" or "aborted"
    frame,        \* position of the control thread within update()
    sinceKeyPress,  \* now - last_key_press, as of the last reading of `now`
    sinceToggle   \* history: time since the last hotkey toggle of runner r

appvars == <<file, lastSave, phase, frame, sinceKeyPress, sinceToggle>>

vars == <<config, running, count, incs, threads, afterStop, ops, driven, appvars>>

Runners == {"clicker", "mover"}

(***************************************************************************)
(* Bounds of the exploration.                                              *)
(***************************************************************************)
MaxOps == 2         \* spawning start() calls plus configuration changes
MaxCount == 2       \* the counters are explored up to this value

(***************************************************************************)
(* Configuration records and their defaults.                               *)
(***************************************************************************)
Buttons == {"Left", "Middle", "Right"}

DefaultClickerConfig ==
    [interval_ms |-> 1000, mouse_button |-> "Left",
     random_delay_enabled |-> FALSE,
     random_delay_min_ms |-> 0, random_delay_max_ms |-> 500]

DefaultMouseMoverConfig ==
    [interval_ms |-> 100, max_distance |-> 100,
     random_delay_enabled |-> FALSE,
     random_delay_min_ms |-> 0, random_delay_max_ms |-> 200]

DefaultConfig(r) ==
    IF r = "clicker" THEN DefaultClickerConfig ELSE DefaultMouseMoverConfig

\* Values the control thread passes to the setters.
IntervalVals == {10}
DistanceVals == {0, 10}
DelayRanges == {<<500, 500>>, <<500, 0>>}

\* Pairs (ClickerConfig, MouseMoverConfig) a config.ron file can hold: any
\* values of the field types parse, whatever their relation to each other.
FileConfigs ==
    { <<[interval_ms |-> 10, mouse_button |-> "Right",
         random_delay_enabled |-> TRUE,
         random_delay_min_ms |-> 500, random_delay_max_ms |-> 0],
        [interval_ms |-> 1000, max_distance |-> -100,
         random_delay_enabled |-> TRUE,
         random_delay_min_ms |-> 200, random_delay_max_ms |-> 200]>>,
      <<[interval_ms |-> 0, mouse_button |-> "Left",
         random_delay_enabled |-> FALSE,
         random_delay_min_ms |-> 0, random_delay_max_ms |-> 500],
        [interval_ms |-> 100, max_distance |-> 0,
         random_delay_enabled |-> TRUE,
         random_delay_min_ms |-> 500, random_delay_max_ms |-> 0]>> }

ConfigVals(r) ==
    {DefaultConfig(r)} \cup {IF r = "clicker" THEN p[1] ELSE p[2] : p \in FileConfigs}

(***************************************************************************)
(* rand: gen_range / random_range over an inclusive range panics when the  *)
(* range is empty; otherwise it returns some value of the range.  The      *)
(* outcomes explored are the two ends of the range.                        *)
(***************************************************************************)
RangeIsEmpty(lo, hi) == lo > hi

\* Variant: the draw ignores the lower end of the range.
GenRange_fromzero(lo, hi) ==
    IF RangeIsEmpty(lo, hi) THEN {} ELSE {0, hi}

GenRange(lo, hi) ==
    IF RangeIsEmpty(lo, hi) THEN {} ELSE {lo, hi}

(***************************************************************************)
(* The bag of loop threads.                                                *)
(***************************************************************************)
ThreadsOf(r) == {t \in BagToSet(threads) : t.runner = r}

NumThreads(r) == BagCardinality([t \in ThreadsOf(r) |-> threads[t]])

Put(B, t) == B (+) SetToBag({t})
Take(B, t) == B (-) SetToBag({t})
Replace(B, t, u) == Put(Take(B, t), u)

\* The thread the closure of thread::spawn starts as: it owns a clone of the
\* configuration and has not yet run its first statement.
NewThread(r, cfg) ==
    [runner |-> r, pc |-> "spawned", config |-> cfg,
     button |-> "None", dx |-> 0, dy |-> 0, failed |-> FALSE, delay |-> 0]

(***************************************************************************)
(* The file at config_path.                                                *)
(***************************************************************************)
\* No file at config_path.
NoFile == [kind |-> "absent"]

\* A file that is there but does not read as the RON text of a pair of
\* configurations, though the record of the clicker in it is intact.
Damaged(c) == [kind |-> "damaged", clicker |-> c]

\* The file fs::write leaves when it succeeds: the text to_string_pretty makes
\* of (clicker.get_config(), mouse_mover.get_config()).
Persisted(cfg) ==
    [kind |-> "pair", clicker |-> cfg["clicker"], mover |-> cfg["mover"]]

FileStates ==
    {NoFile}
      \cup {Damaged([DefaultClickerConfig EXCEPT !.mouse_button = "Right"])}
      \cup {[kind |-> "pair", clicker |-> p[1], mover |-> p[2]] : p \in FileConfigs}

\* fs::read_to_string, then ron::from_str as (ClickerConfig, MouseMoverConfig):
\* the pair, or <<>> when either of the two returns Err.
from_str(f) ==
    IF f.kind = "pair" THEN <<f.clicker, f.mover>> ELSE <<>>

\* The time a hotkey stays without effect after an accepted one, in ms.
DebounceMs == 200

\* Ages of instants are kept up to DebounceMs; beyond it they are all alike.
Age(ms) == IF ms > DebounceMs THEN DebounceMs + 1 ELSE ms

(***************************************************************************)
(* Construction: MourseApp::default(), with Clicker::default(),            *)
(* MouseMover::default() and load_config().                                *)
(***************************************************************************)
\* Variant: each record of the file that parses is taken on its own.
load_config_partial(f) ==
    /\ config = [r \in Runners |->
                    IF r = "clicker"
                    THEN IF f.kind \in {"pair", "damaged"}
                         THEN f.clicker ELSE DefaultConfig(r)
                    ELSE IF f.kind = "pair" THEN f.mover ELSE DefaultConfig(r)]

load_config(f) ==
    LET loaded == from_str(f)
    IN /\ config = [r \in Runners |->
                       IF loaded = <<>> THEN DefaultConfig(r)
                       ELSE IF r = "clicker" THEN loaded[1] ELSE loaded[2]]

MourseApp_default ==
    /\ \E f \in FileStates : file = f /\ load_config(f)
    /\ running = [r \in Runners |-> FALSE]
    /\ count = [r \in Runners |-> 0]
    /\ incs = [r \in Runners |-> 0]
    /\ threads = EmptyBag
    /\ afterStop = [r \in Runners |-> 0]
    /\ ops = 0
    /\ lastSave = "none"
    /\ phase = "running"
    /\ frame = "idle"
    /\ sinceKeyPress = 0
    /\ sinceToggle = [r \in Runners |-> Age(DebounceMs + 1)]

Init ==
    /\ MourseApp_default
    /\ driven \in {{r} : r \in Runners}

\* The application operates both runners.
AppInit ==
    /\ MourseApp_default
    /\ driven = Runners

(***************************************************************************)
(* Control thread: start_clicking / start_moving.                          *)
(***************************************************************************)
\* A start() that spawns is explored while the budget MaxOps allows it.
\* Variant: start() spawns without looking at the flag.
Start_respawn(r) ==
    /\ ops < MaxOps
    /\ running' = [running EXCEPT ![r] = TRUE]
    /\ threads' = Put(threads, NewThread(r, config[r]))
    /\ ops' = ops + 1
    /\ afterStop' = [afterStop EXCEPT ![r] = 0]
    /\ UNCHANGED <<config, count, incs, driven>>

\* Variant: a start() that spawns also clears the counter.
Start_resetcount(r) ==
    /\ running[r] \/ ops < MaxOps
    /\ IF ~running[r]
       THEN /\ running' = [running EXCEPT ![r] = TRUE]
            /\ threads' = Put(threads, NewThread(r, config[r]))
            /\ count' = [count EXCEPT ![r] = 0]
            /\ UNCHANGED incs
            /\ ops' = ops + 1
       ELSE UNCHANGED <<running, threads, count, incs, ops>>
    /\ afterStop' = [afterStop EXCEPT ![r] = 0]
    /\ UNCHANGED <<config, driven>>

Start(r) ==
    /\ running[r] \/ ops < MaxOps
    /\ IF ~running[r]
       THEN /\ running' = [running EXCEPT ![r] = TRUE]
            /\ threads' = Put(threads, NewThread(r, config[r]))
            /\ ops' = ops + 1
       ELSE UNCHANGED <<running, threads, ops>>
    /\ afterStop' = [afterStop EXCEPT ![r] = 0]
    /\ UNCHANGED <<config, count, incs, driven>>

(***************************************************************************)
(* Control thread: stop_clicking / stop_moving.                            *)
(***************************************************************************)
\* Variant: stop() toggles the flag instead of clearing it.
Stop_toggle(r) ==
    /\ running' = [running EXCEPT ![r] = ~@]
    /\ afterStop' = [afterStop EXCEPT ![r] = 0]
    /\ UNCHANGED <<config, count, incs, threads, ops, driven>>

Stop(r) ==
    /\ running' = [running EXCEPT ![r] = FALSE]
    /\ afterStop' = [afterStop EXCEPT ![r] = 0]
    /\ UNCHANGED <<config, count, incs, threads, ops, driven>>

(***************************************************************************)
(* Control thread: reset_click_count / reset_move_count.                   *)
(***************************************************************************)
\* Variant: the counter is cleared only while the runner is stopped.
ResetCount_stopped(r) ==
    /\ ~running[r]
    /\ count' = [count EXCEPT ![r] = 0]
    /\ incs' = [incs EXCEPT ![r] = 0]
    /\ UNCHANGED <<config, running, threads, afterStop, ops, driven>>

ResetCount(r) ==
    /\ count' = [count EXCEPT ![r] = 0]
    /\ incs' = [incs EXCEPT ![r] = 0]
    /\ UNCHANGED <<config, running, threads, afterStop, ops, driven>>

(***************************************************************************)
(* Control thread: the configuration setters.                              *)
(***************************************************************************)
\* A write that changes the configuration is explored while MaxOps allows it.
ConfigWrite(r, cfg) ==
    /\ cfg = config[r] \/ ops < MaxOps
    /\ ops' = IF cfg = config[r] THEN ops ELSE ops + 1
    /\ config' = [config EXCEPT ![r] = cfg]
    /\ UNCHANGED <<running, count, incs, threads, afterStop, driven>>

set_interval(r) ==
    \E interval \in IntervalVals :
        ConfigWrite(r, [config[r] EXCEPT !.interval_ms = interval])

set_mouse_button ==
    \E button \in Buttons :
        ConfigWrite("clicker", [config["clicker"] EXCEPT !.mouse_button = button])

set_max_distance ==
    \E distance \in DistanceVals :
        ConfigWrite("mover", [config["mover"] EXCEPT !.max_distance = distance])

set_random_delay(r) ==
    \E enabled \in BOOLEAN :
        ConfigWrite(r, [config[r] EXCEPT !.random_delay_enabled = enabled])

set_random_delay_range(r) ==
    \E range \in DelayRanges :
        LET min == range[1]
            max == range[2]
        IN ConfigWrite(r, [config[r] EXCEPT !.random_delay_min_ms = min,
                                            !.random_delay_max_ms = max])

set_config(r) ==
    \E cfg \in ConfigVals(r) : ConfigWrite(r, cfg)

(***************************************************************************)
(* Loop thread.                                                            *)
(***************************************************************************)
\* The `config` the closure reads: the clone moved into it by start().
\* Variant: the loop reads the runner's live configuration.
LoopConfig_live(t) == config[t.runner]

LoopConfig(t) == t.config

\* A thread ends (its closure returns, or it unwinds from a panic): it leaves
\* the bag.
Ends(t) == threads' = Take(threads, t)

\* Variant: a loop thread that cannot create its Enigo clears the flag.
LoopEnigoNew_clearsflag(t) ==
    /\ t.pc = "spawned"
    /\ \E ok \in BOOLEAN :
         IF ok THEN /\ threads' = Replace(threads, t, [t EXCEPT !.pc = "while"])
                    /\ UNCHANGED running
               ELSE /\ Ends(t)
                    /\ running' = [running EXCEPT ![t.runner] = FALSE]
    /\ UNCHANGED <<config, count, incs, afterStop, ops, driven>>

\* Enigo::new(&settings).expect(..) and the creation of the rng.
LoopEnigoNew(t) ==
    /\ t.pc = "spawned"
    /\ \E ok \in BOOLEAN :
         IF ok THEN /\ threads' = Replace(threads, t, [t EXCEPT !.pc = "while"])
               ELSE Ends(t)
    /\ UNCHANGED <<config, running, count, incs, afterStop, ops, driven>>

\* Threads of r that passed the flag check and have not yet incremented.
InFlight(r) == {t \in ThreadsOf(r) : t.pc \in {"action", "fetch_add"}}

NumInFlight(r) == BagCardinality([t \in InFlight(r) |-> threads[t]])

\* Variant: the loop condition does not look at the flag.
LoopWhile_noflag(t) ==
    /\ t.pc = "while"
    /\ count[t.runner] + NumInFlight(t.runner) < MaxCount
    /\ threads' = Replace(threads, t, [t EXCEPT !.pc = "action"])
    /\ UNCHANGED <<config, running, count, incs, afterStop, ops, driven>>

\* while is_clicking.load(SeqCst) / is_moving.load(SeqCst)
\* A new iteration is explored while the counter stays within MaxCount.
LoopWhile(t) ==
    /\ t.pc = "while"
    /\ IF running[t.runner]
       THEN /\ count[t.runner] + NumInFlight(t.runner) < MaxCount
            /\ threads' = Replace(threads, t, [t EXCEPT !.pc = "action"])
       ELSE Ends(t)
    /\ UNCHANGED <<config, running, count, incs, afterStop, ops, driven>>

\* Clicker: enigo.button(config.mouse_button.into(), Click), error logged.
\* MouseMover: dx, dy drawn from -max_distance..=max_distance, then
\* enigo.move_mouse(dx, dy, Rel), result dropped.
LoopAction(t) ==
    /\ t.pc = "action"
    /\ LET r == t.runner
           d == LoopConfig(t).max_distance
       IN IF r = "mover" /\ RangeIsEmpty(-d, d)
          THEN /\ Ends(t)
               /\ UNCHANGED afterStop
          ELSE /\ \E ok \in BOOLEAN :
                    IF r = "clicker"
                    THEN threads' = Replace(threads, t,
                            [t EXCEPT !.pc = "fetch_add", !.failed = ~ok,
                                      !.button = LoopConfig(t).mouse_button])
                    ELSE \E dx \in GenRange(-d, d), dy \in GenRange(-d, d) :
                            threads' = Replace(threads, t,
                               [t EXCEPT !.pc = "fetch_add", !.failed = ~ok,
                                         !.dx = dx, !.dy = dy])
               /\ afterStop' = [afterStop EXCEPT ![r] =
                                   IF running[r] THEN @ ELSE @ + 1]
    /\ UNCHANGED <<config, running, count, incs, ops, driven>>

\* Variant: the increment is a load and a store; the store of a thread
\* that another thread of the runner has overtaken repeats that one's value.
LoopFetchAdd_lost(t) ==
    /\ t.pc = "fetch_add"
    /\ count' = [count EXCEPT ![t.runner] =
                    IF NumInFlight(t.runner) > 1 THEN @ ELSE @ + 1]
    /\ incs' = [incs EXCEPT ![t.runner] = @ + 1]
    /\ LET cfg == LoopConfig(t)
           lo == cfg.random_delay_min_ms
           hi == cfg.random_delay_max_ms
           asleep(delay) ==
               [t EXCEPT !.pc = "sleep", !.failed = FALSE, !.delay = delay,
                         !.button = "None", !.dx = 0, !.dy = 0]
       IN IF cfg.random_delay_enabled
          THEN IF RangeIsEmpty(lo, hi)
               THEN Ends(t)
               ELSE \E e \in GenRange(lo, hi) :
                       threads' = Replace(threads, t, asleep(cfg.interval_ms + e))
          ELSE threads' = Replace(threads, t, asleep(cfg.interval_ms))
    /\ UNCHANGED <<config, running, afterStop, ops, driven>>

\* click_count.fetch_add(1, SeqCst) / move_count.fetch_add(1, SeqCst), then
\* let delay = if config.random_delay_enabled { interval + gen_range(min..=max) }
\*             else { interval }
\* The delay is computed from thread-local data only, so it is one step with
\* the increment; the thread then sleeps, or has panicked in the draw.
LoopFetchAdd(t) ==
    /\ t.pc = "fetch_add"
    /\ count' = [count EXCEPT ![t.runner] = @ + 1]
    /\ incs' = [incs EXCEPT ![t.runner] = @ + 1]
    /\ LET cfg == LoopConfig(t)
           lo == cfg.random_delay_min_ms
           hi == cfg.random_delay_max_ms
           asleep(delay) ==
               [t EXCEPT !.pc = "sleep", !.failed = FALSE, !.delay = delay,
                         !.button = "None", !.dx = 0, !.dy = 0]
       IN IF cfg.random_delay_enabled
          THEN IF RangeIsEmpty(lo, hi)
               THEN Ends(t)
               ELSE \E e \in GenRange(lo, hi) :
                       threads' = Replace(threads, t, asleep(cfg.interval_ms + e))
          ELSE threads' = Replace(threads, t, asleep(cfg.interval_ms))
    /\ UNCHANGED <<config, running, afterStop, ops, driven>>

\* thread::sleep(Duration::from_millis(delay)) returns.
LoopSleep(t) ==
    /\ t.pc = "sleep"
    /\ threads' = Replace(threads, t,
          [t EXCEPT !.pc = "while", !.delay = 0])
    /\ UNCHANGED <<config, running, count, incs, afterStop, ops, driven>>

LoopStep(t) ==
    \/ LoopEnigoNew(t)
    \/ LoopWhile(t)
    \/ LoopAction(t)
    \/ LoopFetchAdd(t)
    \/ LoopSleep(t)

LoopNext == \E t \in BagToSet(threads) : LoopStep(t)

ControlNext ==
    \E r \in driven :
        \/ Start(r)
        \/ Stop(r)
        \/ ResetCount(r)
        \/ set_interval(r)
        \/ set_random_delay(r)
        \/ set_random_delay_range(r)
        \/ set_config(r)

Next ==
    \/ ControlNext /\ UNCHANGED appvars
    \/ "clicker" \in driven /\ set_mouse_button /\ UNCHANGED appvars
    \/ "mover" \in driven /\ set_max_distance /\ UNCHANGED appvars
    \/ LoopNext /\ UNCHANGED appvars

Spec == Init /\ [][Next]_vars

\* The OS scheduler runs every runnable thread and every sleep is finite:
\* as long as some loop thread can take a step, one of them does.
FairSpec == Spec /\ WF_vars(LoopNext /\ UNCHANGED appvars)

(***************************************************************************)
(* MourseApp: save_config, the frames of update(), on_exit.                *)
(***************************************************************************)
\* save_config(), called after the configuration became config': fs::write
\* replaces the file by the text of the pair, or fails and leaves the file as
\* it was or cut short; the error is printed and nothing else happens.
save_config ==
    \E written \in {"all", "part", "none"} :
        /\ file' = CASE written = "all" -> Persisted(config')
                      [] written = "part" -> Damaged(config'["clicker"])
                      [] written = "none" -> file
        /\ lastSave' = IF written = "all" THEN "ok" ELSE "failed"

\* Time between two calls of update(), in ms.
FrameGaps == {100, 201}

Keys == {"F6", "F7"}

\* if keys.contains(key) { if now.duration_since(last_key_press) > 200 ms
\*     { toggle the runner; last_key_press = now } }
\* with `age` the value of now.duration_since(last_key_press) and `ages` the
\* time since each runner's last hotkey toggle, both as of `now`.
\* Variant: the key toggles in every frame in which it is down.
Hotkey_nodebounce(r, pressed, age, ages) ==
    IF pressed
    THEN /\ IF running[r] THEN Stop(r) ELSE Start(r)
         /\ sinceKeyPress' = 0
         /\ sinceToggle' = [ages EXCEPT ![r] = 0]
    ELSE /\ sinceKeyPress' = age
         /\ sinceToggle' = ages
         /\ UNCHANGED <<config, running, count, incs, threads, afterStop, ops, driven>>

Hotkey(r, pressed, age, ages) ==
    IF pressed /\ age > DebounceMs
    THEN /\ IF running[r] THEN Stop(r) ELSE Start(r)
         /\ sinceKeyPress' = 0
         /\ sinceToggle' = [ages EXCEPT ![r] = 0]
    ELSE /\ sinceKeyPress' = age
         /\ sinceToggle' = ages
         /\ UNCHANGED <<config, running, count, incs, threads, afterStop, ops, driven>>

\* update() up to the end of the F6 block: the keys and `now` are read, then
\* F6 is looked at.
update_F6(keys, dt) ==
    /\ phase = "running" /\ frame = "idle"
    /\ Hotkey("clicker", "F6" \in keys, Age(sinceKeyPress + dt),
              [r \in Runners |-> Age(sinceToggle[r] + dt)])
    /\ frame' = IF "F7" \in keys THEN "F7" ELSE "widgets"
    /\ UNCHANGED <<file, lastSave, phase>>

\* update(), the F7 block, with the same `now`.
update_F7 ==
    /\ phase = "running" /\ frame = "F7"
    /\ Hotkey("mover", TRUE, sinceKeyPress, sinceToggle)
    /\ frame' = "widgets"
    /\ UNCHANGED <<file, lastSave, phase>>

\* open_config_file(): the editor is spawned on a file that exists; without
\* one, save_config() and the same again, until a file is there.  The calls
\* nest, so saves that fail for ever end in the overflow of the stack.
open_config_file ==
    /\ UNCHANGED <<config, running, count, incs, threads, afterStop, ops, driven>>
    /\ IF file = NoFile
       THEN \/ save_config /\ file' # NoFile /\ UNCHANGED phase
            \/ file' = file /\ lastSave' = "failed" /\ phase' = "aborted"
       ELSE UNCHANGED <<file, lastSave, phase>>

\* Values the user drags a DragValue to, and the upper end of its range.
DragVals == {0, 500}

DragMax(r) == IF r = "clicker" THEN 1000 ELSE 500

\* The two DragValues of "Extra Delay Range", shown while random delay is on:
\* min within 0..=DragMax, then max within min..=DragMax.  The user drags
\* either to a value of its range; a max that was not dragged is left as it
\* was read or brought into its range by the widget.
ui_delay_range(r) ==
    /\ config[r].random_delay_enabled
    /\ \E min \in {config[r].random_delay_min_ms} \cup DragVals :
       \E max \in {config[r].random_delay_max_ms, min, DragMax(r)} :
          /\ min <= DragMax(r)
          /\ ConfigWrite(r, [config[r] EXCEPT !.random_delay_min_ms = min,
                                              !.random_delay_max_ms = max])

\* The widgets of one runner that edit its configuration; each edit is
\* followed by save_config().
\* Variant: an edit that is not followed by save_config().
ui_edit_nosave(r) ==
    /\ \/ set_interval(r)
       \/ r = "clicker" /\ set_mouse_button
       \/ r = "mover" /\ \E distance \in DistanceVals \cap 10..500 :
             ConfigWrite(r, [config[r] EXCEPT !.max_distance = distance])
       \/ set_random_delay(r)
       \/ ui_delay_range(r)
    /\ config' # config
    /\ UNCHANGED <<file, lastSave>>

ui_edit(r) ==
    /\ \/ set_interval(r)
       \/ r = "clicker" /\ set_mouse_button
       \/ r = "mover" /\ \E distance \in DistanceVals \cap 10..500 :
             ConfigWrite(r, [config[r] EXCEPT !.max_distance = distance])
       \/ set_random_delay(r)
       \/ ui_delay_range(r)
    /\ config' # config
    /\ save_config

\* update(), the panel: the widget the user acts on in this frame, if any.
update_widgets ==
    /\ phase = "running" /\ frame = "widgets"
    /\ frame' = "idle"
    /\ UNCHANGED <<sinceKeyPress, sinceToggle>>
    /\ \/ UNCHANGED <<config, running, count, incs, threads, afterStop, ops, driven,
                      file, lastSave, phase>>
       \/ open_config_file
       \/ \E r \in Runners :
             /\ \/ ResetCount(r)
                \/ IF running[r] THEN Stop(r) ELSE Start(r)
             /\ UNCHANGED <<file, lastSave, phase>>
       \/ \E r \in Runners : ui_edit(r) /\ UNCHANGED phase

\* on_exit(): save_config(), and the process ends with its threads.
on_exit ==
    /\ phase = "running" /\ frame = "idle"
    /\ phase' = "exited"
    /\ UNCHANGED <<config, running, count, incs, threads, afterStop, ops, driven,
                   frame, sinceKeyPress, sinceToggle>>
    /\ save_config

AppNext ==
    \/ \E keys \in SUBSET Keys, dt \in FrameGaps : update_F6(keys, dt)
    \/ update_F7
    \/ update_widgets
    \/ on_exit

\* AppSpec follows the control thread.  The loop threads it spawns share with
\* it the flag, which they only read, and the counter; the configuration,
\* the file and the hotkey state are out of their reach, and the steps of
\* the threads are explored in Spec.
AppSpec == AppInit /\ [][AppNext]_vars

(***************************************************************************)
(* Properties.                                                             *)
(***************************************************************************)
Inverted(cfg) ==
    cfg.random_delay_enabled /\ cfg.random_delay_max_ms < cfg.random_delay_min_ms

\* C1: each runner has at most one loop thread alive, hence at most two
\* loop threads exist in total, whatever the control thread has called.
C1_AtMostOneLoopPerRunner ==
    /\ \A r \in Runners : NumThreads(r) <= 1
    /\ BagCardinality(threads) <= 2

\* C2: start() with the flag already true changes neither the threads, the
\* flag, the counter nor the configuration; start() with the flag false sets
\* the flag and adds exactly one thread, a freshly spawned one of that runner.
C2_StartIdempotent ==
    [][\A r \in Runners :
         Start(r) =>
            /\ count' = count
            /\ config' = config
            /\ IF running[r]
               THEN running' = running /\ threads' = threads
               ELSE /\ running'[r]
                    /\ BagCardinality(threads') = BagCardinality(threads) + 1
                    /\ \E t \in BagToSet(threads') :
                          /\ t.runner = r /\ t.pc = "spawned"
                          /\ CopiesIn(t, threads') = CopiesIn(t, threads) + 1]_vars

C2_Witness ==
    \E r \in Runners :
        /\ running[r]
        /\ NumThreads(r) = 1
        /\ \E t \in ThreadsOf(r) : t.pc = "spawned"

\* C3: between a stop() and the next start() of a runner, the runner
\* performs at most one action.
C3_AtMostOneActionAfterStop ==
    \A r \in Runners : ~running[r] => afterStop[r] <= 1

\* The order of the statements of the loop: one action and one sleep lie
\* between two flag checks.
LoopOrder ==
    {<<"spawned", "while">>, <<"while", "action">>, <<"action", "fetch_add">>,
     <<"fetch_add", "sleep">>, <<"sleep", "while">>}

\* C4: stop() is always possible and ends no thread; a loop thread that checks
\* the flag while it is false ends, and between two flag checks a thread
\* performs one action and one sleep, so after a stop() a thread performs at
\* most one action and completes at most one sleep; and if the flag is false
\* with loop threads alive, eventually they have all ended or the flag is
\* true again.
C4_BoundedCancellation ==
    /\ [](\A r \in Runners : ENABLED Stop(r))
    /\ [][\A r \in Runners : Stop(r) => threads' = threads]_vars
    /\ [][\A t \in BagToSet(threads) :
            /\ (LoopWhile(t) /\ ~running[t.runner]) => Ends(t)
            /\ (LoopStep(t) /\ ~Ends(t)) =>
                  \E u \in BagToSet(threads') :
                     /\ threads' = Replace(threads, t, u)
                     /\ <<t.pc, u.pc>> \in LoopOrder]_vars
    /\ \A r \in Runners :
          (~running[r] /\ NumThreads(r) > 0) ~> (running[r] \/ NumThreads(r) = 0)

C4_Witness ==
    \E r \in Runners :
        /\ ~running[r]
        /\ afterStop[r] = 1
        /\ NumThreads(r) = 1
        /\ \E t \in ThreadsOf(r) : t.pc = "while"

\* What a loop with snapshot cfg may sleep for.
SnapshotDelays(cfg) ==
    IF cfg.random_delay_enabled
    THEN {cfg.interval_ms + e :
            e \in GenRange(cfg.random_delay_min_ms, cfg.random_delay_max_ms)}
    ELSE {cfg.interval_ms}

\* C5: a loop thread clicks the button, moves within the distance and sleeps
\* for a delay of the configuration it was spawned with, whatever the
\* setters have written since; the snapshot of a thread never changes, and a
\* newly spawned thread carries the configuration current at its start().
C5_LoopUsesSnapshot ==
    /\ [](\A t \in BagToSet(threads) :
            /\ (t.pc = "fetch_add" /\ t.runner = "clicker") =>
                  t.button = t.config.mouse_button
            /\ (t.pc = "fetch_add" /\ t.runner = "mover") =>
                  /\ t.dx \in GenRange(-t.config.max_distance, t.config.max_distance)
                  /\ t.dy \in GenRange(-t.config.max_distance, t.config.max_distance)
            /\ t.pc = "sleep" => t.delay \in SnapshotDelays(t.config))
    /\ [][\A u \in BagToSet(threads') :
            \/ \E t \in BagToSet(threads) :
                  t.runner = u.runner /\ t.config = u.config
            \/ u.pc = "spawned" /\ u.config = config[u.runner]]_vars

C5_Witness ==
    \E t \in BagToSet(threads) :
        /\ t.pc = "sleep"
        /\ t.config # config[t.runner]
        /\ t.delay \notin SnapshotDelays(config[t.runner])

\* C6: a loop thread ends only at its flag check, with the flag false; and
\* whenever the flag of a runner is true, a loop thread of it is alive.
C6_ExitOnlyByFlag ==
    /\ [][\A t \in BagToSet(threads) :
            Ends(t) => t.pc = "while" /\ ~running[t.runner]]_vars
    /\ [](\A r \in Runners : running[r] => NumThreads(r) >= 1)

\* C7: a loop whose snapshot has random delay enabled and max < min draws
\* its delay as interval + min and goes on to sleep.
C7_InvertedRangeStillSleeps ==
    [][\A t \in BagToSet(threads) :
         (Inverted(t.config) /\ LoopFetchAdd(t)) =>
            \E u \in BagToSet(threads') :
               /\ u.pc = "sleep"
               /\ u.delay = t.config.interval_ms + t.config.random_delay_min_ms
               /\ threads' = Replace(threads, t, u)]_vars

\* C8: an iteration whose injection failed still increments the counter by
\* one and then sleeps for a delay of its configuration.
C8_FailedInjectionContinues ==
    [][\A t \in BagToSet(threads) :
         (t.failed /\ LoopFetchAdd(t)) =>
            /\ count'[t.runner] = count[t.runner] + 1
            /\ \E u \in BagToSet(threads') :
                  /\ u.pc = "sleep"
                  /\ u.delay >= t.config.interval_ms
                  /\ threads' = Replace(threads, t, u)]_vars

\* C9: the flag is false at construction, true after every start(), false
\* after every stop(), and no other step changes it.
C9_FlagFollowsStartStop ==
    /\ \A r \in Runners : ~running[r]
    /\ [][\A r \in Runners :
            /\ Start(r) => running'[r]
            /\ Stop(r) => ~running'[r]
            /\ running'[r] # running[r] => Start(r) \/ Stop(r)]_vars

C9_Witness ==
    \E r \in Runners : ~running[r] /\ NumThreads(r) > 0 /\ count[r] > 0

\* C10: the counter of a runner changes only by a loop thread's increment
\* (by exactly one) or by resetCount() (to 0); start(), stop() and the
\* configuration setters leave it as it is.
C10_CounterChanges ==
    [][\A r \in Runners :
         /\ count'[r] # count[r] =>
               \/ count'[r] = count[r] + 1 /\ \E t \in ThreadsOf(r) : LoopFetchAdd(t)
               \/ count'[r] = 0 /\ ResetCount(r)
         /\ (Start(r) \/ Stop(r) \/ config' # config) => count' = count]_vars

C10_Witness ==
    \E r \in Runners :
        /\ running[r]
        /\ count[r] > 0
        /\ \E t \in ThreadsOf(r) : t.pc = "spawned"

\* C11: resetCount() can be called whether the runner is running or stopped;
\* the counter read right after it is 0, and the call changes neither the
\* flag, the configuration nor the loop threads.
C11_ResetCount ==
    /\ [](\A r \in Runners : ENABLED ResetCount(r))
    /\ [][\A r \in Runners :
            ResetCount(r) =>
               /\ count'[r] = 0
               /\ running' = running
               /\ config' = config
               /\ threads' = threads]_vars

\* A reset while running: the live loop has incremented and sleeps, and the
\* counter reads 0.
C11_Witness ==
    \E r \in Runners :
        /\ running[r]
        /\ count[r] = 0
        /\ \E t \in ThreadsOf(r) : t.pc = "sleep"

\* C12: from a state right after a start() that spawned a loop, the counter
\* eventually exceeds its value in that state, unless a stop() or a
\* resetCount() came first (a reset of a counter that is 0 changes nothing).
C12_CounterGrows ==
    \A r \in Runners : \A n \in 0..(MaxCount - 1) :
        (running[r] /\ count[r] = n /\ \E t \in ThreadsOf(r) : t.pc = "spawned")
           ~> (~running[r] \/ count[r] # n)

\* C13: a sleeping loop thread sleeps for exactly interval_ms of its snapshot
\* when random delay is disabled there, and for interval_ms + e with
\* min <= e <= max when it is enabled with min <= max; with min = max that is
\* exactly interval_ms + min.
C13_SleepLength ==
    \A t \in BagToSet(threads) :
        t.pc = "sleep" =>
            LET cfg == t.config
                lo == cfg.random_delay_min_ms
                hi == cfg.random_delay_max_ms
            IN /\ ~cfg.random_delay_enabled => t.delay = cfg.interval_ms
               /\ (cfg.random_delay_enabled /\ lo <= hi) =>
                     /\ cfg.interval_ms + lo <= t.delay
                     /\ t.delay <= cfg.interval_ms + hi
               /\ (cfg.random_delay_enabled /\ lo = hi) =>
                     t.delay = cfg.interval_ms + lo

C13_Witness ==
    \E t \in BagToSet(threads) :
        /\ t.pc = "sleep"
        /\ t.config.random_delay_enabled
        /\ t.config.random_delay_min_ms = t.config.random_delay_max_ms
        /\ t.config.random_delay_min_ms > 0
        /\ t.delay = t.config.interval_ms + t.config.random_delay_min_ms

\* C14: the displacement a MouseMover thread has drawn lies within
\* -max_distance..max_distance of its snapshot in both coordinates; with
\* max_distance = 0 the action draws (0, 0), and that iteration still
\* increments the move counter by one and goes on to sleep for a delay of at
\* least the interval.
C14_MoverDisplacement ==
    /\ [](\A t \in BagToSet(threads) :
            (t.runner = "mover" /\ t.pc = "fetch_add") =>
               /\ -t.config.max_distance <= t.dx /\ t.dx <= t.config.max_distance
               /\ -t.config.max_distance <= t.dy /\ t.dy <= t.config.max_distance)
    /\ [][\A t \in BagToSet(threads) :
            (t.runner = "mover" /\ t.config.max_distance = 0) =>
               /\ LoopAction(t) =>
                     \E u \in BagToSet(threads') :
                        /\ u.pc = "fetch_add" /\ u.dx = 0 /\ u.dy = 0
                        /\ threads' = Replace(threads, t, u)
               /\ LoopFetchAdd(t) =>
                     /\ count'["mover"] = count["mover"] + 1
                     /\ \E u \in BagToSet(threads') :
                           /\ u.pc = "sleep"
                           /\ u.delay >= t.config.interval_ms
                           /\ threads' = Replace(threads, t, u)]_vars

\* C15: after construction either the file held a pair of configurations and
\* both runners have taken theirs, or it did not (no file, or one that does
\* not parse as the pair) and both runners have their defaults; never one
\* of each.  Flags are false, counters 0 and no thread exists, and no later
\* step loads again: the configuration changes only in the panel of a frame.
C15_LoadAllOrNothing ==
    /\ \/ /\ file.kind = "pair"
          /\ config["clicker"] = file.clicker
          /\ config["mover"] = file.mover
       \/ /\ file.kind # "pair"
          /\ config["clicker"] =
                [interval_ms |-> 1000, mouse_button |-> "Left",
                 random_delay_enabled |-> FALSE,
                 random_delay_min_ms |-> 0, random_delay_max_ms |-> 500]
          /\ config["mover"] =
                [interval_ms |-> 100, max_distance |-> 100,
                 random_delay_enabled |-> FALSE,
                 random_delay_min_ms |-> 0, random_delay_max_ms |-> 200]
    /\ \A r \in Runners : ~running[r] /\ count[r] = 0
    /\ threads = EmptyBag
    /\ [][config' # config => frame = "widgets"]_vars

\* A file whose clicker record alone is intact was found, and both runners
\* have their defaults.
C15_Witness ==
    /\ file.kind = "damaged"
    /\ lastSave = "none"
    /\ file.clicker # DefaultClickerConfig
    /\ config = [r \in Runners |-> DefaultConfig(r)]

\* Some frame has run: `now` was read, or a hotkey was accepted.
FrameRan == sinceKeyPress > 0 \/ \E r \in Runners : sinceToggle[r] = 0

\* C16, as stated: every step that changes a configuration, and the exit,
\* rewrites the file; and at the end of every frame and at exit, unless the
\* latest write failed, the file holds the pair of the configurations in
\* memory.
C16_SavedAfterEveryEdit ==
    /\ [][(config' # config \/ phase' = "exited") => lastSave' # "none"]_vars
    /\ []((frame = "idle" /\ FrameRan /\ phase # "aborted" /\ lastSave # "failed")
            => file = Persisted(config))

\* C16, amended: every step that changes a configuration, and the exit,
\* rewrites the file; whenever the latest rewrite succeeded, or none was made
\* yet and the file held a pair at start, the file holds the pair of the
\* configurations in memory.
C16_SavedOnceWritten ==
    /\ [][(config' # config \/ phase' = "exited") => lastSave' # "none"]_vars
    /\ []((lastSave = "ok" \/ (lastSave = "none" /\ file.kind = "pair"))
            => file = Persisted(config))

\* An edit was made and saved, and the frame is over.
C16_Witness ==
    /\ phase = "running" /\ frame = "idle"
    /\ lastSave = "ok"
    /\ ops > 0 /\ threads = EmptyBag
    /\ file = Persisted(config)

\* C17: whenever random delay is enabled in the configuration of a runner,
\* its minimum is at most its maximum.
C17_EnabledRangeOrdered ==
    \A r \in Runners :
        config[r].random_delay_enabled =>
            config[r].random_delay_min_ms <= config[r].random_delay_max_ms

\* C18: a hotkey block changes the flag of its own runner only, and when it
\* does (a stop if the flag was true, a start otherwise) the key is down and
\* the last hotkey toggle of that runner lies more than DebounceMs before
\* the `now` of the frame; so however long the key is held, the hotkey
\* toggles its runner at most once in any window of DebounceMs.
C18_HotkeyDebounce ==
    [][/\ \A keys \in SUBSET Keys, dt \in FrameGaps :
            update_F6(keys, dt) =>
               /\ running'["mover"] = running["mover"]
               /\ running'["clicker"] # running["clicker"] =>
                     /\ "F6" \in keys
                     /\ Age(sinceToggle["clicker"] + dt) > DebounceMs
                     /\ sinceToggle'["clicker"] = 0
       /\ update_F7 =>
               /\ running'["clicker"] = running["clicker"]
               /\ running'["mover"] # running["mover"] =>
                     /\ sinceToggle["mover"] > DebounceMs
                     /\ sinceToggle'["mover"] = 0]_vars

\* The hotkey block of this frame has just stopped a runner that was running.
C18_Witness ==
    \E r \in Runners :
        /\ frame # "idle"
        /\ ~running[r]
        /\ sinceToggle[r] = 0
        /\ NumThreads(r) >= 1

\* C19, as stated: the flag of a runner is written only by start() and
\* stop() of the control thread, and no step of a loop thread changes a
\* flag; the counter of a runner is written only by its loop thread, of
\* which there is one, and no step of the control thread changes a counter.
C19_SingleWriter ==
    /\ [][\A r \in Runners :
            /\ running'[r] # running[r] => Start(r) \/ Stop(r)
            /\ count'[r] # count[r] => \E t \in ThreadsOf(r) : LoopFetchAdd(t)]_vars
    /\ [][\A t \in BagToSet(threads) : LoopStep(t) => running' = running]_vars
    /\ [](\A r \in Runners : NumThreads(r) <= 1)

\* C19, amended: the flag of a runner is written only by start() and stop()
\* of the control thread, and no step of a loop thread changes a flag; the
\* counter of a runner is written only by the fetch_add of a loop thread of
\* that runner and by resetCount() of the control thread, and a loop thread
\* writes no counter but its runner's.
C19_WritersOfFlagAndCounter ==
    /\ [][\A r \in Runners :
            /\ running'[r] # running[r] => Start(r) \/ Stop(r)
            /\ count'[r] # count[r] =>
                  \/ \E t \in ThreadsOf(r) : LoopFetchAdd(t)
                  \/ ResetCount(r)]_vars
    /\ [][\A t \in BagToSet(threads) :
            LoopStep(t) =>
               /\ running' = running
               /\ \A r \in Runners \ {t.runner} : count'[r] = count[r]]_vars

\* A loop thread has counted, the control thread has cleared the flag, and
\* the thread has read it and ended.
C19_Witness ==
    \E r \in Runners :
        /\ ~running[r]
        /\ count[r] > 0
        /\ NumThreads(r) = 0
        /\ afterStop[r] = 0

\* C20: the interval of each runner's configuration is greater than 0, and
\* no loop thread whose snapshot has random delay disabled sleeps for 0 ms.
C20_IntervalPositive ==
    /\ \A r \in Runners : config[r].interval_ms > 0
    /\ \A t \in BagToSet(threads) :
          (t.pc = "sleep" /\ ~t.config.random_delay_enabled) => t.delay > 0

\* C21: a hotkey that is down in a frame whose `now` lies more than
\* DebounceMs after the last hotkey toggle of its own runner toggles that
\* runner, also when the other hotkey has toggled the other runner in the
\* same frame or within the DebounceMs before (left aside: the first
\* DebounceMs after construction, in which neither runner was toggled yet).
C21_IndependentDebounce ==
    [][/\ \A keys \in SUBSET Keys, dt \in FrameGaps :
            (/\ update_F6(keys, dt)
             /\ "F6" \in keys
             /\ Age(sinceToggle["clicker"] + dt) > DebounceMs
             /\ \/ Age(sinceToggle["mover"] + dt) <= DebounceMs
                \/ Age(sinceKeyPress + dt) > DebounceMs)
               => running'["clicker"] # running["clicker"]
       /\ (/\ update_F7
           /\ sinceToggle["mover"] > DebounceMs
           /\ \/ sinceToggle["clicker"] <= DebounceMs
              \/ sinceKeyPress > DebounceMs)
               => running'["mover"] # running["mover"]]_vars

\* C22: the counter of a runner equals the number of fetch_add calls made on
\* it since its last reset (since construction, if it was never reset),
\* however the loop threads of the runner, one or several, and resetCount()
\* interleave.
C22_NoLostIncrement ==
    \A r \in Runners : count[r] = incs[r]

\* Two loop threads of one runner are alive and each has incremented.
C22_Witness ==
    \E r \in Runners :
        /\ NumThreads(r) = 2
        /\ incs[r] = 2
        /\ \A t \in ThreadsOf(r) : t.pc = "sleep"

\* C23: open_config_file returns, whatever the state of the file system: a
\* click on "Open Config File" leaves the process running, also when the
\* configuration file does not exist and the save that should create it fails.
C23_OpenConfigFileReturns ==
    [][(frame = "widgets" /\ open_config_file) => phase' = "running"]_vars
====
